---- MODULE Spec2Model ----
(***************************************************************************)
(* dit: the record store (one TOML file per task), the derived index      *)
(* (in memory and persisted as .index.toml), the clock state machine of   *)
(* Repo (src/repository/toml.rs) and the commands of Dit (src/commands.rs).*)
(***************************************************************************)
EXTENDS Integers, Sequences, FiniteSets, TLC

\* ---------------------------------------------------------------- bounds
MaxTime == 1            \* the seconds 0..MaxTime are the times given to calls
MaxLog == 2             \* the store holds at most MaxLog log entries in all
MaxWall == 0            \* now(), read when an effort is computed, is in 0..MaxWall
MaxFaults == 1          \* at most MaxFaults writes fail in one run
MaxKeyLen == 3          \* the keys given to validate_key have at most MaxKeyLen characters
MaxRows == 3            \* the listings given to group_by_day have at most MaxRows rows

Ids == {"a", "b"}       \* task identifiers that callers use
Titles == {"t"}         \* titles given to do_new
\* A Timestamp or Duration is a count of units of 1/SubSecond s (chrono
\* counts nanoseconds).  The times given to the clock calls and read from
\* the clock are whole seconds, as parse_timestamp makes them for --at.
SubSecond == 2
Times == {t * SubSecond : t \in 0..MaxTime}
Walls == {t * SubSecond : t \in 0..MaxWall}
Faults == {"none", "record", "index"}   \* which write of save fails, if any

\* ------------------------------------------------------------ data types
\* Option<Timestamp>::None of LogEntry.end
None == 0 - 1

\* the walker's name for the index side file (.index.toml minus the suffix)
IndexId == ".index"

\* LogEntry::new
NewLogEntry(start) == [start |-> start, end |-> None]

is_open(e) == e.end = None

is_closed(e) == e.end # None

\* LogEntry::effort; wall is the value of now()
effort(e, wall) == IF e.end # None THEN e.end - e.start ELSE wall - e.start

\* Task::new
NewTask == [title |-> "", log |-> <<>>]

EmptyMap == [x \in {} |-> x]

Put(m, k, v) == [x \in (DOMAIN m) \cup {k} |-> IF x = k THEN v ELSE m[x]]

Remove(m, k) == [x \in (DOMAIN m) \ {k} |-> m[x]]

\* ------------------------------------------------------- pure functions
\* impl Ord for LogEntry compares start only; Vec::sort is stable
RECURSIVE InsertSorted(_, _)
InsertSorted(e, s) ==
    IF s = <<>> THEN <<e>>
    ELSE IF s[Len(s)].start <= e.start THEN Append(s, e)
    ELSE Append(InsertSorted(e, SubSeq(s, 1, Len(s) - 1)), s[Len(s)])

RECURSIVE SortLog(_)
SortLog(log) ==
    IF log = <<>> THEN <<>>
    ELSE InsertSorted(log[Len(log)], SortLog(SubSeq(log, 1, Len(log) - 1)))

\* Task::total_effort: fold over the whole log
RECURSIVE total_effort(_, _)
total_effort(log, wall) ==
    IF log = <<>> THEN 0
    ELSE total_effort(SubSeq(log, 1, Len(log) - 1), wall) + effort(log[Len(log)], wall)

\* IndexEntry::new taking the effort of the given entry for the total
NewIndexEntry_last(data, entry, wall) ==
    [title |-> data.title, log_entry |-> entry, total_effort |-> effort(entry, wall)]

\* IndexEntry::new
NewIndexEntry(data, entry, wall) ==
    [title |-> data.title, log_entry |-> entry, total_effort |-> total_effort(data.log, wall)]

\* ------------------------------------------------- task keys (models.rs)
\* A key is the sequence of its characters.  The classes of TASK_KEY,
\* ^(/?[A-Za-z][0-9A-Za-z_-]*)+$
Letter ==
    {"a", "b", "c", "d", "e", "f", "g", "h", "i", "j", "k", "l", "m",
     "n", "o", "p", "q", "r", "s", "t", "u", "v", "w", "x", "y", "z",
     "A", "B", "C", "D", "E", "F", "G", "H", "I", "J", "K", "L", "M",
     "N", "O", "P", "Q", "R", "S", "T", "U", "V", "W", "X", "Y", "Z"}

Digit == {"0", "1", "2", "3", "4", "5", "6", "7", "8", "9"}

Word == Letter \cup Digit \cup {"_", "-"}

\* the group with [0-9A-Za-z_-] for its first character too
key_group_any_first(s, i) ==
    LET k == IF i <= Len(s) /\ s[i] = "/" THEN i + 1 ELSE i
    IN  IF k <= Len(s) /\ s[k] \in Word
        THEN {j \in (k + 1)..(Len(s) + 1) : \A m \in (k + 1)..(j - 1) : s[m] \in Word}
        ELSE {}

\* one repetition of the group /?[A-Za-z][0-9A-Za-z_-]* matched from
\* position i: the positions at which it can end (the next unread one)
key_group(s, i) ==
    LET k == IF i <= Len(s) /\ s[i] = "/" THEN i + 1 ELSE i
    IN  IF k <= Len(s) /\ s[k] \in Letter
        THEN {j \in (k + 1)..(Len(s) + 1) : \A m \in (k + 1)..(j - 1) : s[m] \in Word}
        ELSE {}

\* (...)+ : the positions reached from those of F by n more groups at most
RECURSIVE key_groups(_, _, _)
key_groups(s, F, n) ==
    IF n = 0 THEN F
    ELSE key_groups(s, F \cup UNION {key_group(s, i) : i \in F}, n - 1)

\* Task::validate_key (and models::validate_task_key): TASK_KEY.is_match,
\* anchored at both ends of the key
validate_key(s) == (Len(s) + 1) \in key_groups(s, key_group(s, 1), Len(s))

\* -------------------------------------------- serialization (time.rs)
\* timestamp::serialize: Nice for Timestamp with TIMESTAMP_FORMAT "%F %T %z";
\* the text, taken as the count of whole seconds it shows
timestamp_serialize(t) == t \div SubSecond

\* timestamp::deserialize: DateTime::parse_from_str of that text
timestamp_deserialize(x) == x * SubSecond

\* duration::serialize: Nice for Duration shows num_seconds(), which rounds
\* toward zero; the text, taken as the count of seconds it shows
duration_serialize(d) == IF d >= 0 THEN d \div SubSecond ELSE 0 - ((0 - d) \div SubSecond)

\* duration::deserialize: parse_duration of that text
duration_deserialize(x) == x * SubSecond

\* a LogEntry through write and read: timestamp::serialize for start,
\* timestamp::optional for end (None leaves the key out; serde(default)
\* reads a missing key as None)
stored_entry(e) ==
    [start |-> timestamp_deserialize(timestamp_serialize(e.start)),
     end |-> IF e.end = None THEN None
             ELSE timestamp_deserialize(timestamp_serialize(e.end))]

\* a TaskData through write and read: a record file is kept as the TaskData
\* that read parses from the text that write produced
stored_task(data) ==
    [title |-> data.title,
     log |-> [i \in 1..Len(data.log) |-> stored_entry(data.log[i])]]

\* the Index through write and read, in the same way
stored_index(index) ==
    [k \in DOMAIN index |->
        [title |-> index[k].title,
         log_entry |-> stored_entry(index[k].log_entry),
         total_effort |-> duration_deserialize(duration_serialize(index[k].total_effort))]]

\* ------------------------------------------------------ Repo (toml.rs)
\* A store state st is [files, index, index_file]:
\*   files       the record files: task id -> TaskData [title, log] as written
\*   index       Repo.index, the in-memory HashMap<String, IndexEntry>
\*   index_file  .index.toml: [exists, data]
\* Every operation returns [err, files, index, index_file]; err is "none" for
\* Ok(()) and otherwise names the error: "missing" (no record to read),
\* "state" (a bail! on the log's state), "record"/"index" (that write failed),
\* "exists", "corrupt" (a file that does not parse as a record).
Err(st, kind) ==
    [err |-> kind, files |-> st.files, index |-> st.index, index_file |-> st.index_file]

\* Repo::exists
exists(st, id) == id \in DOMAIN st.files

\* update_index without the removal of the entry of an empty log
update_index_keep(index, id, data, wall) ==
    IF data.log # <<>>
    THEN Put(index, id, NewIndexEntry(data, data.log[Len(data.log)], wall))
    ELSE index

\* Repo::update_index
update_index(index, id, data, wall) ==
    IF data.log # <<>>
    THEN Put(index, id, NewIndexEntry(data, data.log[Len(data.log)], wall))
    ELSE Remove(index, id)

\* save deriving the whole index from the record files as they are after
\* its write, instead of updating the index that the instance holds
save_rescan(st, id, data, wall, fault) ==
    IF fault = "record" THEN Err(st, "record")
    ELSE LET f1 == Put(st.files, id, stored_task(data))
             i1 == [k \in {x \in DOMAIN f1 : f1[x].log # <<>>} |->
                       LET log == SortLog(f1[k].log)
                       IN  NewIndexEntry([title |-> f1[k].title, log |-> log],
                                         log[Len(log)], wall)]
         IN  [err |-> fault,
              files |-> f1,
              index |-> i1,
              index_file |-> IF fault = "index" THEN st.index_file
                             ELSE [exists |-> TRUE, data |-> stored_index(i1)]]

\* Repo::save: write the record, update the index in memory, write the index.
\* fault = "record": write() of the record fails, nothing else runs;
\* fault = "index": save_index's write() fails after the other two steps.
save(st, id, data, wall, fault) ==
    IF fault = "record" THEN Err(st, "record")
    ELSE LET i1 == update_index(st.index, id, data, wall)
         IN  [err |-> fault,
              files |-> Put(st.files, id, stored_task(data)),
              index |-> i1,
              index_file |-> IF fault = "index" THEN st.index_file
                             ELSE [exists |-> TRUE, data |-> stored_index(i1)]]

\* Repo::load, for an id whose record file exists: read, then data.log.sort()
load(st, id) == [title |-> st.files[id].title, log |-> SortLog(st.files[id].log)]

\* Repo::clock_in
clock_in(st, id, now, wall, fault) ==
    IF ~exists(st, id) THEN Err(st, "missing")
    ELSE LET task == load(st, id)
         IN  save(st, id, [task EXCEPT !.log = Append(task.log, NewLogEntry(now))],
                  wall, fault)

\* clock_out without the check that the last entry is still open
clock_out_unchecked(st, id, now, wall, fault) ==
    IF ~exists(st, id) THEN Err(st, "missing")
    ELSE LET task == load(st, id)
             n == Len(task.log)
         IN  IF n = 0 THEN Err(st, "state")
             ELSE save(st, id, [task EXCEPT !.log[n].end = now], wall, fault)

\* Repo::clock_out
clock_out(st, id, now, wall, fault) ==
    IF ~exists(st, id) THEN Err(st, "missing")
    ELSE LET task == load(st, id)
             n == Len(task.log)
         IN  IF n = 0 THEN Err(st, "state")
             ELSE IF task.log[n].end # None THEN Err(st, "state")
             ELSE save(st, id, [task EXCEPT !.log[n].end = now], wall, fault)

\* Repo::un_clock_in
un_clock_in(st, id, wall, fault) ==
    IF ~exists(st, id) THEN Err(st, "missing")
    ELSE LET task == load(st, id)
             n == Len(task.log)
         IN  IF n = 0 THEN Err(st, "state")
             ELSE IF task.log[n].end # None THEN Err(st, "state")
             ELSE save(st, id, [task EXCEPT !.log = SubSeq(task.log, 1, n - 1)],
                       wall, fault)

\* un_clock_out reopening the first entry of the log instead of the last
un_clock_out_first(st, id, wall, fault) ==
    IF ~exists(st, id) THEN Err(st, "missing")
    ELSE LET task == load(st, id)
             n == Len(task.log)
         IN  IF n = 0 THEN Err(st, "state")
             ELSE IF task.log[n].end = None THEN Err(st, "state")
             ELSE save(st, id, [task EXCEPT !.log[1].end = None], wall, fault)

\* un_clock_out without the check that the last entry is closed
un_clock_out_unchecked(st, id, wall, fault) ==
    IF ~exists(st, id) THEN Err(st, "missing")
    ELSE LET task == load(st, id)
             n == Len(task.log)
         IN  IF n = 0 THEN Err(st, "state")
             ELSE save(st, id, [task EXCEPT !.log[n].end = None], wall, fault)

\* Repo::un_clock_out
un_clock_out(st, id, wall, fault) ==
    IF ~exists(st, id) THEN Err(st, "missing")
    ELSE LET task == load(st, id)
             n == Len(task.log)
         IN  IF n = 0 THEN Err(st, "state")
             ELSE IF task.log[n].end = None THEN Err(st, "state")
             ELSE save(st, id, [task EXCEPT !.log[n].end = None], wall, fault)

\* Repo::is_clocked_in: find() over the HashMap returns any open entry's key;
\* the set of keys it can return (empty: it returns None)
is_clocked_in(index) == {k \in DOMAIN index : is_open(index[k].log_entry)}

\* all orders of a finite set
Perms(S) ==
    {p \in [1..Cardinality(S) -> S] : \A i, j \in 1..Cardinality(S) : i # j => p[i] # p[j]}

\* Repo::sorted_index: the keys by log_entry descending; HashMap iteration
\* order and sort_unstable_by leave the order of equal starts open
sorted_index(index) ==
    {p \in Perms(DOMAIN index) :
        \A i \in 1..(Len(p) - 1) :
            index[p[i]].log_entry.start >= index[p[i + 1]].log_entry.start}

\* Repo::previous_task: the keys sorted_index can put at position i (0-based)
previous_task(index, i) ==
    {p[i + 1] : p \in {q \in sorted_index(index) : i < Len(q)}}

\* check_index that bails at more than two open entries
check_index_lax(index) == Cardinality(is_clocked_in(index)) <= 2

\* Repo::check_index
check_index(index) == Cardinality(is_clocked_in(index)) <= 1

\* Repo::load_index
load_index(f) == IF f.exists THEN f.data ELSE EmptyMap

\* Repo::path: directory.join(id) is the id itself when the id is an
\* absolute path, so the record of a key with a leading '/' is a file
\* outside the root; the identifiers of that kind
AbsoluteIds == {"/a"}

\* Repo::list_ids: every *.toml file under the root, the index file included
list_ids(st) ==
    ((DOMAIN st.files) \ AbsoluteIds) \cup (IF st.index_file.exists THEN {IndexId} ELSE {})

\* the loop of rebuild_index taking each log as the file has it, unsorted
RECURSIVE rebuild_loop_raw(_, _, _, _, _)
rebuild_loop_raw(st, idx, ids, from, wall) ==
    IF from > Len(ids) THEN [err |-> "none", index |-> idx]
    ELSE IF ids[from] = IndexId THEN [err |-> "corrupt", index |-> idx]
    ELSE rebuild_loop_raw(st, update_index(idx, ids[from], st.files[ids[from]], wall),
                          ids, from + 1, wall)

\* the loop of Repo::rebuild_index over ids[from..]: load each id and update
\* the index; reading the index file as a TaskData fails (it has no title)
RECURSIVE rebuild_loop(_, _, _, _, _)
rebuild_loop(st, idx, ids, from, wall) ==
    IF from > Len(ids) THEN [err |-> "none", index |-> idx]
    ELSE IF ids[from] = IndexId THEN [err |-> "corrupt", index |-> idx]
    ELSE rebuild_loop(st, update_index(idx, ids[from], load(st, ids[from]), wall),
                      ids, from + 1, wall)

\* Repo::rebuild_index; ids is the order in which WalkDir yields the files
rebuild_index(st, ids, wall, fault) ==
    LET r == rebuild_loop(st, EmptyMap, ids, 1, wall)
        e == IF r.err # "none" THEN r.err
             ELSE IF fault = "none" THEN "none" ELSE "index"
    IN  [err |-> e,
         files |-> st.files,
         index |-> r.index,
         index_file |-> IF e = "none" THEN [exists |-> TRUE, data |-> stored_index(r.index)]
                        ELSE st.index_file]

\* -------------------------------------------------- Dit (commands.rs)
\* Each command returns the set of outcomes [id, res] it can have: id is the
\* task the command chose ("-" when it bailed before choosing one) and res
\* the result of the Repo call (Err when the command bailed).
NoId == "-"

Bail(st, kind) == {[id |-> NoId, res |-> Err(st, kind)]}

\* do_new without the check that no record exists for the key
do_new_overwrite(st, key, title, wall, fault) ==
    {[id |-> key, res |-> save(st, key, [NewTask EXCEPT !.title = title], wall, fault)]}

\* Dit::do_new
do_new(st, key, title, wall, fault) ==
    IF exists(st, key) THEN Bail(st, "exists")
    ELSE {[id |-> key, res |-> save(st, key, [NewTask EXCEPT !.title = title], wall, fault)]}

\* Dit::do_work_on
do_work_on(st, key, now, wall, fault) ==
    IF ~exists(st, key) THEN Bail(st, "missing")
    ELSE IF is_clocked_in(st.index) # {} THEN Bail(st, "state")
    ELSE {[id |-> key, res |-> clock_in(st, key, now, wall, fault)]}

\* Dit::do_halt
do_halt(st, now, wall, fault) ==
    IF is_clocked_in(st.index) = {} THEN Bail(st, "state")
    ELSE {[id |-> id, res |-> clock_out(st, id, now, wall, fault)] :
            id \in is_clocked_in(st.index)}

\* Dit::do_append
do_append(st, wall, fault) ==
    IF previous_task(st.index, 0) = {} THEN Bail(st, "state")
    ELSE {IF is_closed(st.index[id].log_entry)
          THEN [id |-> id, res |-> un_clock_out(st, id, wall, fault)]
          ELSE [id |-> id, res |-> Err(st, "state")] :
            id \in previous_task(st.index, 0)}

\* Dit::do_cancel
do_cancel(st, wall, fault) ==
    IF is_clocked_in(st.index) = {} THEN Bail(st, "state")
    ELSE {[id |-> id, res |-> un_clock_in(st, id, wall, fault)] :
            id \in is_clocked_in(st.index)}

\* Dit::do_work_on_by_index
do_work_on_by_index(st, now, i, wall, fault) ==
    IF previous_task(st.index, i) = {} THEN Bail(st, "state")
    ELSE {IF is_closed(st.index[id].log_entry)
          THEN [id |-> id, res |-> clock_in(st, id, now, wall, fault)]
          ELSE [id |-> id, res |-> Err(st, "state")] :
            id \in previous_task(st.index, i)}

\* Dit::do_status with rebuild = true, up to the rebuild (the rest prints)
do_status(st, wall, fault) ==
    {[id |-> NoId, res |-> rebuild_index(st, ids, wall, fault)] : ids \in Perms(list_ids(st))}

\* an invocation of status with rebuild on the directory of st: Repo::new,
\* then Dit::do_status up to the rebuild
rebuild_invocation(st, ids, wall) ==
    LET loaded == load_index(st.index_file)
    IN  IF ~check_index(loaded) THEN Err(st, "state")
        ELSE rebuild_index([st EXCEPT !.index = loaded], ids, wall, "none")

\* ---------------------------------------------- queries (toml.rs)
Min(x, y) == IF x <= y THEN x ELSE y

\* IndexEntry::to_status
to_status(id, e) ==
    [id |-> id, title |-> e.title, log_entry |-> e.log_entry, total_effort |-> e.total_effort]

\* get_status without the truncation to limit
get_status_untruncated(index, limit) ==
    {[i \in 1..Len(p) |-> to_status(p[i], index[p[i]])] : p \in sorted_index(index)}

\* Repo::get_status: the results it can return; its own sort_unstable_by over
\* the HashMap's items has the comparator of sorted_index
get_status(index, limit) ==
    {LET full == [i \in 1..Len(p) |-> to_status(p[i], index[p[i]])]
     IN  IF limit > 0 THEN SubSeq(full, 1, Min(limit, Len(full))) ELSE full :
        p \in sorted_index(index)}

\* the closures is_after and is_before of Repo::get_listing
is_after(after, x) == after = None \/ x >= after

is_before(before, x) == before = None \/ x <= before

\* ListItem::new
NewListItem(id, data, e) == [id |-> id, title |-> data.title, log_entry |-> e]

\* the rows of get_listing before its sort: for the tasks ids[from..] as
\* loaded, the entries whose start is within the bounds
RECURSIVE listing_items(_, _, _, _, _)
listing_items(st, ids, from, after, before) ==
    IF from > Len(ids) THEN <<>>
    ELSE LET t == load(st, ids[from])
             sel == SelectSeq(t.log, LAMBDA e : is_after(after, e.start) /\ is_before(before, e.start))
         IN  [i \in 1..Len(sel) |-> NewListItem(ids[from], t, sel[i])]
                 \o listing_items(st, ids, from + 1, after, before)

\* the orders sort_unstable_by can leave the rows in: start descending
sorted_rows(items) ==
    {[i \in 1..Len(items) |-> items[q[i]]] :
        q \in {r \in Perms(1..Len(items)) :
                  \A i \in 1..(Len(items) - 1) :
                      items[r[i]].log_entry.start >= items[r[i + 1]].log_entry.start}}

\* Repo::get_listing: the results [err, rows] it can return
get_listing(st, after, before) ==
    UNION {LET ids == SelectSeq(p, LAMBDA id : is_after(after, st.index[id].log_entry.start))
           IN  IF \E i \in 1..Len(ids) : ~exists(st, ids[i])
               THEN {[err |-> "missing", rows |-> <<>>]}
               ELSE {[err |-> "none", rows |-> r] :
                        r \in sorted_rows(listing_items(st, ids, 1, after, before))} :
        p \in sorted_index(st.index)}

\* ------------------------------------------------------------ the state
VARIABLES
    files,          \* the record files under the root: id -> TaskData
    index,          \* Repo.index of the running instance
    index_file,     \* .index.toml: [exists, data]
    alive,          \* the process runs: Repo::new returned Ok, no call failed
    last,           \* the last call: [op, id, ts, err]; ts is the time a
                    \* successful call was given, None otherwise
    nfaults,        \* the writes that failed so far
    clean,          \* every call so far returned Ok
    out,            \* what the last call was given and returned: [x, y, rows],
                    \* x and y its arguments, rows the sequence it returned
                    \* (for save, the TaskData it was given)
    peer            \* a second invocation on the same root: [pc, index], pc
                    \* "off", after its Repo::new "loaded", after its command
                    \* "done"; index its Repo.index

vars == <<files, index, index_file, alive, last, nfaults, clean, out, peer>>

St == [files |-> files, index |-> index, index_file |-> index_file]

NoOut == [x |-> None, y |-> None, rows |-> <<>>]

NoPeer == [pc |-> "off", index |-> EmptyMap]

\* a fresh directory, and Repo::new on it
Init ==
    /\ files = EmptyMap
    /\ index = EmptyMap
    /\ index_file = [exists |-> FALSE, data |-> EmptyMap]
    /\ alive = TRUE
    /\ last = [op |-> "new", id |-> NoId, ts |-> None, err |-> "none"]
    /\ nfaults = 0
    /\ clean = TRUE
    /\ out = NoOut
    /\ peer = NoPeer

RECURSIVE Entries(_, _)
Entries(f, S) ==
    IF S = {} THEN 0
    ELSE LET x == CHOOSE y \in S : TRUE IN Len(f[x].log) + Entries(f, S \ {x})

LogsBounded(f) == Entries(f, DOMAIN f) <= MaxLog

\* The call op(id, ts) ran in the live process and returned res.  An Err
\* reaches Graceful::graceful, which exits the process.
Outcome(op, id, ts, res, o) ==
    /\ LogsBounded(res.files)
    /\ res.err \in {"record", "index"} => nfaults < MaxFaults
    /\ files' = res.files
    /\ index' = res.index
    /\ index_file' = res.index_file
    /\ alive' = (res.err = "none")
    /\ last' = [op |-> op, id |-> id,
                ts |-> IF res.err = "none" THEN ts ELSE None, err |-> res.err]
    /\ nfaults' = IF res.err \in {"record", "index"} THEN nfaults + 1 ELSE nfaults
    /\ clean' = (clean /\ res.err = "none")
    /\ out' = o
    /\ UNCHANGED peer

\* the same, out keeping what the call was given when it returned Ok
Return(op, id, ts, res, given) ==
    Outcome(op, id, ts, res, IF res.err = "none" THEN given ELSE NoOut)

Finish(op, id, ts, res) == Return(op, id, ts, res, NoOut)

\* --------------------------------------------- calls on the Repository
ClockIn ==
    /\ alive
    /\ \E id \in Ids, now \in Times, wall \in Walls, fault \in Faults :
          Finish("clock_in", id, now, clock_in(St, id, now, wall, fault))

ClockOut ==
    /\ alive
    /\ \E id \in Ids, now \in Times, wall \in Walls, fault \in Faults :
          Finish("clock_out", id, now, clock_out(St, id, now, wall, fault))

UnClockIn ==
    /\ alive
    /\ \E id \in Ids, wall \in Walls, fault \in Faults :
          Finish("un_clock_in", id, None, un_clock_in(St, id, wall, fault))

UnClockOut ==
    /\ alive
    /\ \E id \in Ids, wall \in Walls, fault \in Faults :
          Finish("un_clock_out", id, None, un_clock_out(St, id, wall, fault))

\* ------------------------------------------------------ calls on Dit
\* keys: the identifiers that the callers of this specification create
DoNew(keys) ==
    /\ alive
    /\ \E key \in keys, title \in Titles, wall \in Walls, fault \in Faults :
          \E o \in do_new(St, key, title, wall, fault) :
              Return("do_new", key, None, o.res, [x |-> title, y |-> None, rows |-> <<>>])

DoWorkOn ==
    /\ alive
    /\ \E key \in Ids, now \in Times, wall \in Walls, fault \in Faults :
          \E o \in do_work_on(St, key, now, wall, fault) :
              Finish("do_work_on", key, now, o.res)

DoHalt ==
    /\ alive
    /\ \E now \in Times, wall \in Walls, fault \in Faults :
          \E o \in do_halt(St, now, wall, fault) :
              Finish("do_halt", o.id, now, o.res)

DoAppend ==
    /\ alive
    /\ \E wall \in Walls, fault \in Faults :
          \E o \in do_append(St, wall, fault) :
              Finish("do_append", o.id, None, o.res)

DoCancel ==
    /\ alive
    /\ \E wall \in Walls, fault \in Faults :
          \E o \in do_cancel(St, wall, fault) :
              Finish("do_cancel", o.id, None, o.res)

DoWorkOnByIndex ==
    /\ alive
    /\ \E now \in Times, i \in 0..Cardinality(Ids), wall \in Walls, fault \in Faults :
          \E o \in do_work_on_by_index(St, now, i, wall, fault) :
              Outcome("do_work_on_by_index", o.id, now, o.res,
                      [x |-> i, y |-> None, rows |-> <<>>])

DoStatus ==
    /\ alive
    /\ \E wall \in Walls, fault \in Faults :
          \E o \in do_status(St, wall, fault) :
              Finish("do_status", NoId, None, o.res)

\* --------------------------------------------------------- the queries
\* The query op(x, y) ran in the live process and returned rows or an Err.
Answer(op, x, y, err, rows) ==
    /\ alive' = (err = "none")
    /\ last' = [op |-> op, id |-> NoId, ts |-> None, err |-> err]
    /\ clean' = (clean /\ err = "none")
    /\ out' = [x |-> x, y |-> y, rows |-> rows]
    /\ UNCHANGED <<files, index, index_file, nfaults, peer>>

Limits == 0..(Cardinality(Ids) + 1)

Bounds == {None} \cup Times

GetStatus ==
    /\ alive
    /\ \E limit \in Limits :
          \E r \in get_status(index, limit) :
              Answer("get_status", limit, None, "none", r)

GetListing ==
    /\ alive
    /\ \E after \in Bounds, before \in Bounds :
          \E r \in get_listing(St, after, before) :
              Answer("get_listing", after, before, r.err, r.rows)

\* the next invocation constructs its Repo over the same root: Repo::new
RepoNew ==
    LET loaded == load_index(index_file)
        ok == check_index(loaded)
    IN  /\ ~alive
        /\ alive' = ok
        /\ index' = IF ok THEN loaded ELSE EmptyMap
        /\ last' = [op |-> "new", id |-> NoId, ts |-> None,
                    err |-> IF ok THEN "none" ELSE "state"]
        /\ clean' = (clean /\ ok)
        /\ out' = NoOut
        /\ UNCHANGED <<files, index_file, nfaults, peer>>

\* the invocation ends after its command returned Ok: main returns
Exit ==
    /\ alive
    /\ alive' = FALSE
    /\ UNCHANGED <<files, index, index_file, last, nfaults, clean, out, peer>>

\* the commands, as the command line reaches them
NextCmd ==
    \/ DoNew(Ids)
    \/ DoWorkOn
    \/ DoHalt
    \/ DoAppend
    \/ DoCancel
    \/ DoWorkOnByIndex
    \/ DoStatus
    \/ RepoNew

SpecCmd == Init /\ [][NextCmd]_vars

\* the calls of the Repository trait on the record of one task that do_new
\* created, and on an identifier that has no record
RepoIds == {"a"}

Next ==
    \/ DoNew(RepoIds)
    \/ ClockIn
    \/ ClockOut
    \/ UnClockIn
    \/ UnClockOut
    \/ RepoNew

Spec == Init /\ [][Next]_vars

\* -------------------------------------------- rebuild on a directory
\* The record files that saves can leave behind: save writes the log that
\* load sorted with at most its last entry changed or pushed, so all but the
\* last entry are in order of start.
LogEntries == [start : Times, end : {None} \cup Times]

WrittenLogs(n) ==
    {l \in UNION {[1..k -> LogEntries] : k \in 0..n} :
        \A i \in 1..(Len(l) - 2) : l[i].start <= l[i + 1].start}

\* the directories with a record for each id of S and n log entries at most
RECURSIVE DirectoriesOf(_, _)
DirectoriesOf(S, n) ==
    IF S = {} THEN {EmptyMap}
    ELSE LET id == CHOOSE x \in S : TRUE
         IN  UNION {{Put(g, id, [title |-> t, log |-> l]) :
                        g \in DirectoriesOf(S \ {id}, n - Len(l)), t \in Titles} :
                    l \in WrittenLogs(n)}

Directories == UNION {DirectoriesOf(S, MaxLog) : S \in SUBSET Ids}

NoIndexFile == [exists |-> FALSE, data |-> EmptyMap]

\* an index file that the saves of these records wrote
WrittenIndex(f) ==
    LET st == [files |-> f, index |-> EmptyMap, index_file |-> NoIndexFile]
        ids == CHOOSE p \in Perms(DOMAIN f) : TRUE
    IN  [exists |-> TRUE, data |-> stored_index(rebuild_loop(st, EmptyMap, ids, 1, 0).index)]

\* Repo::new on a directory of records whose index file is there or is
\* missing (its writes failed)
InitDir ==
    /\ files \in Directories
    /\ index_file \in {NoIndexFile, WrittenIndex(files)}
    /\ alive = check_index(load_index(index_file))
    /\ index = IF alive THEN load_index(index_file) ELSE EmptyMap
    /\ last = [op |-> "new", id |-> NoId, ts |-> None,
               err |-> IF alive THEN "none" ELSE "state"]
    /\ nfaults = 0
    /\ clean = TRUE
    /\ out = NoOut
    /\ peer = NoPeer

NextRebuild ==
    \/ DoStatus
    \/ RepoNew

SpecRebuild == InitDir /\ [][NextRebuild]_vars

\* ------------------------------------------------------ save and load
\* the timestamps a Task in memory can hold: every unit up to the last second
Stamps == 0..(MaxTime * SubSecond)

StampedEntries == [start : Stamps, end : {None} \cup Stamps]

\* the logs of the tasks given to save, in every order of their entries
GivenLogs == UNION {[1..n -> StampedEntries] : n \in 0..MaxLog}

\* Repo::save of a task built in memory
SaveTask ==
    /\ alive
    /\ \E id \in RepoIds, title \in Titles, log \in GivenLogs, wall \in Walls, fault \in Faults :
          LET data == [title |-> title, log |-> log]
          IN  Return("save", id, None, save(St, id, data, wall, fault),
                     [x |-> None, y |-> None, rows |-> <<data>>])

\* Repo::load; read fails when the record file is missing
LoadTask ==
    /\ alive
    /\ \E id \in Ids :
          IF exists(St, id) THEN Answer("load", id, None, "none", <<load(St, id)>>)
          ELSE Answer("load", id, None, "missing", <<>>)

NextRoundTrip ==
    \/ SaveTask
    \/ LoadTask
    \/ RepoNew

SpecRoundTrip == Init /\ [][NextRoundTrip]_vars

\* --------------------------------------------------- the key argument
KeyChars == {"f", "O", "0", "_", "-", "/", "."}

Keys == UNION {[1..n -> KeyChars] : n \in 0..MaxKeyLen}

\* a key on the command line of a fresh directory; out.rows holds it
InitKey ==
    /\ files = EmptyMap
    /\ index = EmptyMap
    /\ index_file = [exists |-> FALSE, data |-> EmptyMap]
    /\ alive = TRUE
    /\ last = [op |-> "new", id |-> NoId, ts |-> None, err |-> "none"]
    /\ nfaults = 0
    /\ clean = TRUE
    /\ out \in {[x |-> None, y |-> None, rows |-> k] : k \in Keys}
    /\ peer = NoPeer

\* the validator of the task argument; an Err ends the invocation
ValidateKey ==
    /\ alive
    /\ last.op = "new"
    /\ LET ok == validate_key(out.rows)
       IN  /\ alive' = ok
           /\ last' = [op |-> "validate_key", id |-> NoId, ts |-> None,
                       err |-> IF ok THEN "none" ELSE "key"]
           /\ clean' = ok
    /\ UNCHANGED <<files, index, index_file, nfaults, out, peer>>

SpecKey == InitKey /\ [][ValidateKey]_vars

\* a step of A that returns Ok
Ok(A) == A /\ last'.err = "none"

\* invocations, each Repo::new and a command that returns Ok
NextNew ==
    \/ Ok(DoNew(Ids))
    \/ Ok(DoWorkOn)
    \/ Ok(DoHalt)
    \/ Ok(DoAppend)
    \/ Exit
    \/ RepoNew

SpecNew == Init /\ [][NextNew]_vars

\* get_status between commands that return Ok
NextStatus ==
    \/ Ok(DoNew(Ids))
    \/ Ok(DoWorkOn)
    \/ Ok(DoHalt)
    \/ GetStatus

SpecStatus == Init /\ [][NextStatus]_vars

\* the queries between commands that return Ok
NextQuery ==
    \/ Ok(DoNew(Ids))
    \/ Ok(DoWorkOn)
    \/ Ok(DoHalt)
    \/ GetStatus
    \/ GetListing

SpecQuery == Init /\ [][NextQuery]_vars

\* ------------------------------------------------ the clock at a query
\* what the clock can read when a query runs: the readings of the commands
\* and one second more
Clock == {t * SubSecond : t \in 0..(MaxWall + 1)}

\* Repo::get_status called when the clock reads wall (out.y keeps the
\* reading; get_status itself does not read the clock).  The clock does not
\* go back between two queries.
GetStatusAt ==
    /\ alive
    /\ \E limit \in Limits, wall \in Clock :
          /\ last.op = "get_status" => wall >= out.y
          /\ \E r \in get_status(index, limit) :
                Answer("get_status", limit, wall, "none", r)

NextEffort ==
    \/ Ok(DoNew(Ids))
    \/ Ok(DoWorkOn)
    \/ Ok(DoHalt)
    \/ GetStatusAt

SpecEffort == Init /\ [][NextEffort]_vars

\* ----------------------------------------------- do_list, grouped by day
\* A Timestamp is a DateTime<FixedOffset>: an instant and the offset of the
\* zone it was taken in (now() and parse_timestamp take the offset that Local
\* has at the call; "%F %T %z" keeps it in the file).  Here the log_entry of
\* a row has the instant in start and the offset in offset, and a day has
\* DayLen units.
DayLen == 3

Offsets == {0, 2}

Instants == 0..DayLen

\* DateTime::date: the calendar date of the local time; Date's == compares it
date(e) == (e.start + e.offset) \div DayLen

\* total_effort of commands.rs: the fold of ListItem::effort over the rows
RECURSIVE rows_total_effort(_, _)
rows_total_effort(x, wall) ==
    IF x = <<>> THEN 0
    ELSE rows_total_effort(SubSeq(x, 1, Len(x) - 1), wall) + effort(x[Len(x)].log_entry, wall)

\* group_by_day from its step i (1-based) on, slice_start rows being grouped
\* already: a slice ends at the last row or where the date of the next row
\* differs
RECURSIVE group_by_day_from(_, _, _)
group_by_day_from(x, i, slice_start) ==
    IF i > Len(x) THEN <<>>
    ELSE LET k == date(x[i].log_entry)
         IN  IF i = Len(x) \/ k # date(x[i + 1].log_entry)
             THEN <<[key |-> k, items |-> SubSeq(x, slice_start + 1, i)]>>
                      \o group_by_day_from(x, i + 1, i)
             ELSE group_by_day_from(x, i + 1, slice_start)

group_by_day(x) == group_by_day_from(x, 1, 0)

\* the rows get_listing can return: one per entry, by start descending
ListingEntries ==
    {e \in [start : Instants, end : {None} \cup 0..(DayLen + 1), offset : Offsets] :
        e.end = None \/ e.end \in {e.start, e.start + 1}}

Listings ==
    {x \in UNION {[1..n -> [id : {"a"}, title : Titles, log_entry : ListingEntries]] :
                    n \in 0..MaxRows} :
        \A i \in 1..(Len(x) - 1) : x[i].log_entry.start >= x[i + 1].log_entry.start}

\* get_listing returned out.rows to do_list
InitDay ==
    /\ files = EmptyMap
    /\ index = EmptyMap
    /\ index_file = [exists |-> FALSE, data |-> EmptyMap]
    /\ alive = TRUE
    /\ last = [op |-> "get_listing", id |-> NoId, ts |-> None, err |-> "none"]
    /\ nfaults = 0
    /\ clean = TRUE
    /\ out \in {[x |-> None, y |-> None, rows |-> x] : x \in Listings}
    /\ peer = NoPeer

\* Dit::do_list in the modes GroupByDay and Daily: out.x is the sequence of
\* the groups, each with the total printed for it, out.y the clock's reading
DoListByDay ==
    /\ alive
    /\ last.op = "get_listing"
    /\ \E wall \in Walls :
          LET g == group_by_day(out.rows)
          IN  out' = [x |-> [i \in 1..Len(g) |->
                               [key |-> g[i].key, items |-> g[i].items,
                                total |-> rows_total_effort(g[i].items, wall)]],
                      y |-> wall, rows |-> out.rows]
    /\ last' = [op |-> "do_list", id |-> NoId, ts |-> None, err |-> "none"]
    /\ UNCHANGED <<files, index, index_file, alive, nfaults, clean, peer>>

SpecDay == InitDay /\ [][DoListByDay]_vars

\* do_new, failing or not, between commands that return Ok
NextCreate ==
    \/ DoNew(Ids)
    \/ Ok(DoWorkOn)
    \/ Ok(DoHalt)
    \/ RepoNew

SpecCreate == Init /\ [][NextCreate]_vars

\* ------------------------------------------------- a second invocation
\* the store as the second invocation has it: the files of the root and its
\* own Repo.index
PeerSt == [files |-> files, index |-> peer.index, index_file |-> index_file]

\* a second invocation starts on the same root while the first one runs:
\* Repo::new loads the index file as it is now (a bail of check_index ends
\* that invocation at once)
PeerNew ==
    /\ peer.pc = "off"
    /\ check_index(load_index(index_file))
    /\ peer' = [pc |-> "loaded", index |-> load_index(index_file)]
    /\ UNCHANGED <<files, index, index_file, alive, last, nfaults, clean, out>>

\* The command op(id, ts) of the second invocation returned res (no write
\* failing) and the invocation ended.  Its writes are in the files of the
\* root; the Repo.index of the first invocation is out of its reach.
PeerReturn(op, id, ts, res) ==
    /\ LogsBounded(res.files)
    /\ files' = res.files
    /\ index_file' = res.index_file
    /\ peer' = [pc |-> "done", index |-> res.index]
    /\ last' = [op |-> op, id |-> id,
                ts |-> IF res.err = "none" THEN ts ELSE None, err |-> res.err]
    /\ clean' = (clean /\ res.err = "none")
    /\ out' = NoOut
    /\ UNCHANGED <<index, alive, nfaults>>

\* Dit::do_work_on in the second invocation
PeerWorkOn ==
    /\ peer.pc = "loaded"
    /\ \E key \in Ids, now \in Times, wall \in Walls :
          \E o \in do_work_on(PeerSt, key, now, wall, "none") :
              PeerReturn("do_work_on", key, now, o.res)

\* Dit::do_halt in the second invocation
PeerHalt ==
    /\ peer.pc = "loaded"
    /\ \E now \in Times, wall \in Walls :
          \E o \in do_halt(PeerSt, now, wall, "none") :
              PeerReturn("do_halt", o.id, now, o.res)

\* two invocations on one root: the commands of the first return Ok
NextPeer ==
    \/ Ok(DoNew(Ids))
    \/ Ok(DoWorkOn)
    \/ PeerNew
    \/ PeerWorkOn
    \/ PeerHalt

SpecPeer == Init /\ [][NextPeer]_vars

\* ------------------------------------------------ save, step by step
\* Repo::save statement by statement.  While a save runs, last.err is
\* "running", out.rows holds the TaskData given, out.y the store as it was
\* at the call and out.x the statements run so far, each [step, ok].
\* write() ends in fs::write, which opens the file truncating it and then
\* writes the text: when it fails the file is as it was (the directory, the
\* serialization or the opening failed) or is cut short (the writing
\* failed).  The file cut short is taken here as the empty file.  (The
\* commands above take the failure before the file is opened.)

\* an empty record file: read cannot parse it as a TaskData (the title is
\* missing), which the title that no task has stands for
TruncatedRecord == [title |-> "(unreadable)", log |-> <<>>]

\* an empty index file: read parses it as an Index without entries
TruncatedIndex == [exists |-> TRUE, data |-> EmptyMap]

SavedLogs == {<<>>} \cup {<<e>> : e \in LogEntries}

Running == last.op = "save" /\ last.err = "running"

Stepped(step, ok) == [out EXCEPT !.x = Append(out.x, [step |-> step, ok |-> ok])]

\* save(&task) is called
SaveCall ==
    /\ alive
    /\ ~Running
    /\ \E id \in RepoIds, title \in Titles, log \in SavedLogs :
          /\ last' = [op |-> "save", id |-> id, ts |-> None, err |-> "running"]
          /\ out' = [x |-> <<>>, y |-> St, rows |-> <<[title |-> title, log |-> log]>>]
    /\ UNCHANGED <<files, index, index_file, alive, nfaults, clean, peer>>

\* the failed write of the record, with the index updated before it
WriteRecord_updated ==
    /\ Running
    /\ out.x = <<>>
    /\ \/ /\ files' = Put(files, last.id, stored_task(out.rows[1]))
          /\ out' = Stepped("write", TRUE)
          /\ UNCHANGED <<index, alive, last, nfaults, clean>>
       \/ /\ nfaults < MaxFaults
          /\ \E wall \in Walls : index' = update_index(index, last.id, out.rows[1], wall)
          /\ out' = Stepped("write", FALSE)
          /\ last' = [last EXCEPT !.err = "record"]
          /\ alive' = FALSE
          /\ nfaults' = nfaults + 1
          /\ clean' = FALSE
          /\ files' \in {files, Put(files, last.id, TruncatedRecord)}
    /\ UNCHANGED <<index_file, peer>>

\* write(&self.path(&task.id), &task.data)...?; an Err returns from save and
\* ends the process
WriteRecord ==
    /\ Running
    /\ out.x = <<>>
    /\ \/ /\ files' = Put(files, last.id, stored_task(out.rows[1]))
          /\ out' = Stepped("write", TRUE)
          /\ UNCHANGED <<alive, last, nfaults, clean>>
       \/ /\ nfaults < MaxFaults
          /\ out' = Stepped("write", FALSE)
          /\ last' = [last EXCEPT !.err = "record"]
          /\ alive' = FALSE
          /\ nfaults' = nfaults + 1
          /\ clean' = FALSE
          /\ files' \in {files, Put(files, last.id, TruncatedRecord)}
    /\ UNCHANGED <<index, index_file, peer>>

\* the update of the index run as the first statement of save
UpdateIndex_first ==
    /\ Running
    /\ Len(out.x) \in {0, 1}
    /\ \A i \in 1..Len(out.x) : out.x[i].step # "update_index"
    /\ \E wall \in Walls : index' = update_index(index, last.id, out.rows[1], wall)
    /\ out' = IF out.x = <<>> THEN out ELSE Stepped("update_index", TRUE)
    /\ UNCHANGED <<files, index_file, alive, last, nfaults, clean, peer>>

\* self.update_index(&task)
UpdateIndex ==
    /\ Running
    /\ Len(out.x) = 1
    /\ \E wall \in Walls : index' = update_index(index, last.id, out.rows[1], wall)
    /\ out' = Stepped("update_index", TRUE)
    /\ UNCHANGED <<files, index_file, alive, last, nfaults, clean, peer>>

\* self.save_index(), whose result is the result of save
SaveIndex ==
    /\ Running
    /\ Len(out.x) = 2
    /\ \/ /\ index_file' = [exists |-> TRUE, data |-> stored_index(index)]
          /\ out' = Stepped("save_index", TRUE)
          /\ last' = [last EXCEPT !.err = "none"]
          /\ UNCHANGED <<alive, nfaults, clean>>
       \/ /\ nfaults < MaxFaults
          /\ out' = Stepped("save_index", FALSE)
          /\ last' = [last EXCEPT !.err = "index"]
          /\ alive' = FALSE
          /\ nfaults' = nfaults + 1
          /\ clean' = FALSE
          /\ index_file' \in {index_file, TruncatedIndex}
    /\ UNCHANGED <<files, index, peer>>

NextSave ==
    \/ SaveCall
    \/ WriteRecord
    \/ UpdateIndex
    \/ SaveIndex
    \/ RepoNew

SpecSave == Init /\ [][NextSave]_vars

\* ------------------------------ the clock calls with writes cut short
\* what a call that returned res on task id leaves behind: the write that
\* failed left its file untouched or cut short
Cut(id, res) ==
    IF res.err = "record"
    THEN {res, [res EXCEPT !.files = Put(res.files, id, TruncatedRecord)]}
    ELSE IF res.err = "index"
    THEN {res, [res EXCEPT !.index_file = TruncatedIndex]}
    ELSE {res}

CutClockIn ==
    /\ alive
    /\ \E id \in Ids, now \in Times, wall \in Walls, fault \in Faults :
          \E r \in Cut(id, clock_in(St, id, now, wall, fault)) :
              Finish("clock_in", id, now, r)

CutClockOut ==
    /\ alive
    /\ \E id \in Ids, now \in Times, wall \in Walls, fault \in Faults :
          \E r \in Cut(id, clock_out(St, id, now, wall, fault)) :
              Finish("clock_out", id, now, r)

CutUnClockIn ==
    /\ alive
    /\ \E id \in Ids, wall \in Walls, fault \in Faults :
          \E r \in Cut(id, un_clock_in(St, id, wall, fault)) :
              Finish("un_clock_in", id, None, r)

CutUnClockOut ==
    /\ alive
    /\ \E id \in Ids, wall \in Walls, fault \in Faults :
          \E r \in Cut(id, un_clock_out(St, id, wall, fault)) :
              Finish("un_clock_out", id, None, r)

\* two tasks that do_new created, and the four clock calls on them
NextFrame ==
    \/ Ok(DoNew(Ids))
    \/ CutClockIn
    \/ CutClockOut
    \/ CutUnClockIn
    \/ CutUnClockOut
    \/ RepoNew

SpecFrame == Init /\ [][NextFrame]_vars

\* ------------------------------------------- the identifiers listed
\* do_new with keys that the key grammar accepts, one with a leading '/',
\* and the rebuild
NextList ==
    \/ DoNew(Ids \cup AbsoluteIds)
    \/ Ok(DoWorkOn)
    \/ Ok(DoHalt)
    \/ DoStatus
    \/ RepoNew

SpecList == Init /\ [][NextList]_vars

\* ------------------------------------------ total_effort as text
\* A Duration of whole seconds is taken as [hours, r], the two numbers that
\* nice() computes first: hours = num_seconds() / 3600 and r = num_seconds()
\* % 3600, both rounding toward zero, so that r has the sign of hours.
SecondsPerHour == 3600
SecondsPerMinute == 60

\* i32::MAX; the type of i() and of the sum in parse_duration
I32Max == 2147483647

\* 2^32 as WrapHours * 3600 + WrapRest
WrapHours == 2 * (I32Max \div SecondsPerHour)
WrapRest == 2 * ((I32Max % SecondsPerHour) + 1)

\* / and % of Rust's integers, for b > 0: the quotient rounds toward zero
quot(a, b) == IF a >= 0 \/ a % b = 0 THEN a \div b ELSE (a \div b) + 1
rem(a, b) == a - quot(a, b) * b

\* the hours of the durations converted: a few small ones, a day, and the
\* ones around i32::MAX / 3600 and 2^32 / 3600
HourSamples ==
    {0, 1, 2, 24, I32Max \div SecondsPerHour, (I32Max \div SecondsPerHour) + 1, WrapHours}
        \cup {0 - 1, 0 - 2, 0 - ((I32Max \div SecondsPerHour) + 1)}

RestSamples ==
    {0, 1, 59, 60, 61, 1800, I32Max % SecondsPerHour, (I32Max % SecondsPerHour) + 1,
     SecondsPerHour - 1}
        \cup {0 - 1, 0 - 60, 0 - 1800, 1 - SecondsPerHour}

Durations ==
    {d \in [hours : HourSamples, r : RestSamples] :
        \/ d.hours >= 0 /\ d.r >= 0
        \/ d.hours <= 0 /\ d.r <= 0}

\* the text of a duration is the sequence of its pieces [x, suffix], "1h30min"
\* being <<[x |-> 1, suffix |-> "h"], [x |-> 30, suffix |-> "min"]>>
format_duration_piece(x, suffix) ==
    IF x = 0 THEN <<>> ELSE <<[x |-> x, suffix |-> suffix]>>

\* impl Nice for Duration
nice(d) ==
    IF d.hours = 0 /\ d.r = 0 THEN <<[x |-> 0, suffix |-> "s"]>>
    ELSE format_duration_piece(d.hours, "h")
            \o format_duration_piece(quot(d.r, SecondsPerMinute), "min")
            \o format_duration_piece(rem(d.r, SecondsPerMinute), "s")

\* DURATION_RE: optional pieces with the suffixes d, h, min, s in this order
SuffixRank == [d |-> 1, h |-> 2, min |-> 3, s |-> 4]

DURATION_RE(text) ==
    \A k \in 1..(Len(text) - 1) :
        SuffixRank[text[k].suffix] < SuffixRank[text[k + 1].suffix]

\* i(&m, n): the number captured for the suffix n, 0 without the piece
\* (named captured, i being a bound variable of this module)
captured(text, n) ==
    IF \E k \in 1..Len(text) : text[k].suffix = n
    THEN text[CHOOSE k \in 1..Len(text) : text[k].suffix = n].x
    ELSE 0

\* h * 3600 in i32: [overflow, value], value being the product modulo 2^32
\* (for the hours converted here the product is less than 2^32 off the range)
mul_i32(h) ==
    LET fits == h <= I32Max \div SecondsPerHour /\ h >= 0 - (I32Max \div SecondsPerHour)
    IN  [overflow |-> ~fits,
         value |-> IF fits THEN h * SecondsPerHour
                   ELSE IF h > 0 THEN (h - WrapHours) * SecondsPerHour - WrapRest
                   ELSE (h + WrapHours) * SecondsPerHour + WrapRest]

\* a + b in i32, the same way
add_i32(a, b) ==
    IF b > 0 /\ a > I32Max - b
    THEN [overflow |-> TRUE, value |-> (((a - I32Max) + (b - 1)) - I32Max) - 1]
    ELSE IF b < 0 /\ a < ((0 - I32Max) - 1) - b
    THEN [overflow |-> TRUE, value |-> (((a + I32Max) + (b + 1)) + I32Max) + 1]
    ELSE [overflow |-> FALSE, value |-> a + b]

\* Duration::seconds(s)
seconds(s) == [hours |-> quot(s, SecondsPerHour), r |-> rem(s, SecondsPerHour)]

NoDuration == [hours |-> 0, r |-> 0]

\* duration::deserialize on parse_duration: the set of the outcomes [err, d].
\* The sum is computed in i32; where it overflows, a build with overflow
\* checks panics and a build without them goes on with the wrapped value.
\* (The days captured are not in the sum.)
parse_duration(text) ==
    IF ~DURATION_RE(text) THEN {[err |-> "invalid", d |-> NoDuration]}
    ELSE LET p == mul_i32(captured(text, "h"))
             q == add_i32(p.value, captured(text, "min") * SecondsPerMinute)
             s == add_i32(q.value, captured(text, "s"))
         IN  IF p.overflow \/ q.overflow \/ s.overflow
             THEN {[err |-> "panic", d |-> NoDuration],
                   [err |-> "none", d |-> seconds(s.value)]}
             ELSE {[err |-> "none", d |-> seconds(s.value)]}

\* a total_effort about to be written with the index
InitDuration ==
    /\ files = EmptyMap
    /\ index = EmptyMap
    /\ index_file = [exists |-> FALSE, data |-> EmptyMap]
    /\ alive = TRUE
    /\ last = [op |-> "total_effort", id |-> NoId, ts |-> None, err |-> "none"]
    /\ nfaults = 0
    /\ clean = TRUE
    /\ out \in {[x |-> d, y |-> <<>>, rows |-> <<>>] : d \in Durations}
    /\ peer = NoPeer

\* duration::serialize: out.y is the text written for out.x
DurationSerialize ==
    /\ alive
    /\ last.op = "total_effort"
    /\ out' = [out EXCEPT !.y = nice(out.x)]
    /\ last' = [last EXCEPT !.op = "serialize"]
    /\ UNCHANGED <<files, index, index_file, alive, nfaults, clean, peer>>

\* duration::deserialize when the index is loaded: out.rows holds its outcome
DurationDeserialize ==
    /\ alive
    /\ last.op = "serialize"
    /\ \E o \in parse_duration(out.y) :
          /\ out' = [out EXCEPT !.rows = <<o>>]
          /\ last' = [last EXCEPT !.op = "deserialize", !.err = o.err]
          /\ alive' = (o.err = "none")
          /\ clean' = (o.err = "none")
    /\ UNCHANGED <<files, index, index_file, nfaults, peer>>

NextDuration ==
    \/ DurationSerialize
    \/ DurationDeserialize

SpecDuration == InitDuration /\ [][NextDuration]_vars

\* ---------------------------------------------------------- properties
\* the log of a stored task as Repo::load returns it
LoadedLog(f, id) == SortLog(f[id].log)

LastOf(s) == s[Len(s)]

\* the task is Active: its record exists and the last entry of its log is open
Active(f, id) ==
    /\ id \in DOMAIN f
    /\ f[id].log # <<>>
    /\ is_open(LastOf(LoadedLog(f, id)))

\* the last entry of the task's log is closed
Halted(f, id) ==
    /\ id \in DOMAIN f
    /\ f[id].log # <<>>
    /\ is_closed(LastOf(LoadedLog(f, id)))

WriteFailed(l) == l.err \in {"record", "index"}

ClockOps == {"clock_in", "clock_out", "un_clock_in", "un_clock_out"}

\* the calls that end in Repo::clock_in when they return Ok
ClockInCalls == {"clock_in", "do_work_on", "do_work_on_by_index"}

StNext == [files |-> files', index |-> index', index_file |-> index_file']

\* C1: Single-Active: when every call so far returned success, the index has
\* at most one entry whose last_log_entry is open.
C1_SingleActive ==
    clean => Cardinality(is_clocked_in(index)) <= 1

\* C2: clock_in(id, ts) fails if the task has no record and fails if a task
\* is Active; on success it appends exactly LogEntry{start: ts, end: None}.
\* (Stated for the runs in which every call returned success before it.)
C2_ClockIn ==
    [][(clean /\ last'.op = "clock_in") =>
        LET id == last'.id IN
        /\ id \notin DOMAIN files => last'.err # "none"
        /\ (\E k \in DOMAIN files : Active(files, k)) => last'.err # "none"
        /\ last'.err = "none" =>
              /\ id \in DOMAIN files
              /\ files'[id].log = Append(LoadedLog(files, id), NewLogEntry(last'.ts))]_vars

\* C3: in every task's log as load returns it, only the last entry may be
\* open (so at most one entry is open).  (Stated for the states reached by
\* calls that all returned success: no failed write is needed to refute it.)
C3_OpenOnlyLast ==
    clean =>
        \A id \in DOMAIN files :
            \A i \in 1..Len(files[id].log) :
                is_open(LoadedLog(files, id)[i]) => i = Len(files[id].log)

\* C4: when every call so far returned success, the index has an entry for
\* exactly the tasks with a non-empty log, and each entry's log_entry is the
\* final entry of the log that load returns.
C4_IndexIsRescan ==
    clean =>
        /\ DOMAIN index = {id \in DOMAIN files : files[id].log # <<>>}
        /\ \A id \in DOMAIN index :
              index[id].log_entry = LastOf(LoadedLog(files, id))

\* C5: after a successful clock_in(id, t), un_clock_in(id) succeeds and
\* leaves the task's log as it was before the clock_in.  (Stated for the
\* runs in which every call returned success.)
C5_UndoClockIn ==
    [][(clean' /\ last'.op \in ClockInCalls) =>
        \A wall \in Walls :
            LET id == last'.id
                r == un_clock_in(StNext, id, wall, "none")
            IN  /\ r.err = "none"
                /\ LoadedLog(r.files, id) = LoadedLog(files, id)]_vars

\* C6: after a successful clock_out(id, t) on an Active task, un_clock_out(id)
\* succeeds and leaves the task's log as it was before the clock_out: the
\* last entry open again, every entry otherwise unchanged.
C6_UndoClockOut ==
    [][(last'.op = "clock_out" /\ last'.err = "none") =>
        \A wall \in Walls :
            LET id == last'.id
                r == un_clock_out(StNext, id, wall, "none")
            IN  /\ Active(files, id)
                /\ r.err = "none"
                /\ LoadedLog(r.files, id) = LoadedLog(files, id)
                /\ Active(r.files, id)]_vars

C6_Witness ==
    /\ last.op = "clock_out"
    /\ last.err = "none"
    /\ Len(files[last.id].log) = 2
    /\ Halted(files, last.id)
    /\ Active(un_clock_out(St, last.id, 0, "none").files, last.id)

\* C7: clock_out(id, ts) succeeds exactly when the last entry of the task's
\* log is open (no write failing); on success the last entry has end = ts
\* and no other entry changed; it fails on an empty log or a closed last
\* entry.
C7_ClockOut ==
    [][last'.op = "clock_out" =>
        LET id == last'.id
            pre == IF id \in DOMAIN files THEN LoadedLog(files, id) ELSE <<>>
        IN  /\ last'.err = "none" => Active(files, id)
            /\ (Active(files, id) /\ ~WriteFailed(last')) => last'.err = "none"
            /\ last'.err = "none" =>
                  /\ files'[id].log = [pre EXCEPT ![Len(pre)].end = last'.ts]
                  /\ files'[id].title = files[id].title
            /\ (pre = <<>> \/ is_closed(LastOf(pre))) => last'.err # "none"]_vars

C7_Witness ==
    /\ last.op = "clock_out"
    /\ last.err = "none"
    /\ Len(files[last.id].log) = 2
    /\ LastOf(LoadedLog(files, last.id)).end = last.ts

\* C8: un_clock_in(id) succeeds exactly when the task is Active (no write
\* failing); on success the last entry is gone and the entries before it are
\* unchanged, and the index has no entry for a task whose log became empty;
\* it fails when the last entry is closed.
C8_UnClockIn ==
    [][last'.op = "un_clock_in" =>
        LET id == last'.id
            pre == IF id \in DOMAIN files THEN LoadedLog(files, id) ELSE <<>>
        IN  /\ last'.err = "none" => Active(files, id)
            /\ (Active(files, id) /\ ~WriteFailed(last')) => last'.err = "none"
            /\ last'.err = "none" =>
                  /\ files'[id].log = SubSeq(pre, 1, Len(pre) - 1)
                  /\ Len(pre) = 1 => id \notin DOMAIN index'
                  /\ Len(pre) = 1 => id \notin DOMAIN index_file'.data
            /\ Halted(files, id) => last'.err # "none"]_vars

C8_Witness ==
    /\ last.op = "un_clock_in"
    /\ last.err = "none"
    /\ files[last.id].log = <<>>
    /\ last.id \notin DOMAIN index

\* C9: un_clock_out(id) succeeds exactly when the last entry of the task's
\* log is closed (no write failing); on success that entry has end = None
\* and its start, and the other entries, are unchanged; it fails on an open
\* last entry or an empty log.
C9_UnClockOut ==
    [][last'.op = "un_clock_out" =>
        LET id == last'.id
            pre == IF id \in DOMAIN files THEN LoadedLog(files, id) ELSE <<>>
        IN  /\ last'.err = "none" => Halted(files, id)
            /\ (Halted(files, id) /\ ~WriteFailed(last')) => last'.err = "none"
            /\ last'.err = "none" =>
                  /\ files'[id].log = [pre EXCEPT ![Len(pre)].end = None]
                  /\ LastOf(files'[id].log).start = LastOf(pre).start
            /\ (pre = <<>> \/ is_open(LastOf(pre))) => last'.err # "none"]_vars

C9_Witness ==
    /\ last.op = "un_clock_out"
    /\ last.err = "none"
    /\ Len(files[last.id].log) = 2
    /\ is_open(LastOf(LoadedLog(files, last.id)))

\* C10: a clock_in, clock_out, un_clock_in or un_clock_out that returns an
\* error leaves the task's stored log as it was before the call.
C10_NoPartialMutation ==
    [][(last'.op \in ClockOps /\ last'.err # "none") =>
        /\ DOMAIN files' = DOMAIN files
        /\ \A id \in DOMAIN files : files'[id].log = files[id].log]_vars

\* C11: in every stored log entry that has an end, end >= start.  (Stated
\* for the states reached by calls that all returned success.)
C11_EndAfterStart ==
    clean =>
        \A id \in DOMAIN files :
            \A i \in 1..Len(files[id].log) :
                is_closed(files[id].log[i]) => files[id].log[i].end >= files[id].log[i].start

\* the stored entries a listing with these bounds is to show: <<id, i>> for
\* the i-th entry of the record of id
Listed(f, after, before) ==
    UNION {{<<id, i>> : i \in {j \in 1..Len(f[id].log) :
                                  /\ after # None => f[id].log[j].start >= after
                                  /\ before # None => f[id].log[j].start <= before}} :
            id \in DOMAIN f}

Descending(rows) ==
    \A i \in 1..(Len(rows) - 1) : rows[i].log_entry.start >= rows[i + 1].log_entry.start

\* C12: get_listing(after, before) returns exactly one row for each stored
\* log entry whose start is within [after, before] (an absent bound is no
\* bound), no other row, ordered by start descending.
C12_Listing ==
    [][last'.op = "get_listing" =>
        LET rows == out'.rows
            want == Listed(files, out'.x, out'.y)
        IN  /\ last'.err = "none"
            /\ Len(rows) = Cardinality(want)
            /\ \E m \in [1..Len(rows) -> want] :
                  /\ \A i, j \in 1..Len(rows) : i # j => m[i] # m[j]
                  /\ \A i \in 1..Len(rows) :
                        LET id == m[i][1]
                        IN  rows[i] = [id |-> id, title |-> files[id].title,
                                       log_entry |-> files[id].log[m[i][2]]]
            /\ Descending(rows)]_vars

\* C13: get_status(limit) returns index entries ordered by the start of
\* their log entry descending: the first min(limit, n) of the n entries when
\* limit > 0, all n when limit = 0.
C13_Status ==
    [][last'.op = "get_status" =>
        LET rows == out'.rows
            limit == out'.x
            n == Cardinality(DOMAIN index)
        IN  /\ Len(rows) = IF limit > 0 /\ limit < n THEN limit ELSE n
            /\ \A i \in 1..Len(rows) :
                  /\ rows[i].id \in DOMAIN index
                  /\ rows[i] = [id |-> rows[i].id,
                                title |-> index[rows[i].id].title,
                                log_entry |-> index[rows[i].id].log_entry,
                                total_effort |-> index[rows[i].id].total_effort]
            /\ \A i, j \in 1..Len(rows) : i # j => rows[i].id # rows[j].id
            /\ Descending(rows)
            /\ \A k \in DOMAIN index :
                  (\A i \in 1..Len(rows) : rows[i].id # k) =>
                      \A i \in 1..Len(rows) :
                          rows[i].log_entry.start >= index[k].log_entry.start]_vars

C13_Witness ==
    /\ last.op = "get_status"
    /\ out.x = 1
    /\ DOMAIN index = {"a", "b"}
    /\ index["a"].log_entry.start # index["b"].log_entry.start
    /\ Len(out.rows) = 1
    /\ \A k \in DOMAIN index : out.rows[1].log_entry.start >= index[k].log_entry.start

\* C14: the order of the index is deterministic: for one index content,
\* previous_task(i) can return one task only for each i, and get_status one
\* sequence only, also when two entries have equal starts.
C14_Deterministic ==
    /\ \A i \in 0..Cardinality(Ids) : Cardinality(previous_task(index, i)) <= 1
    /\ Cardinality(get_status(index, 0)) = 1

C16_RebuildIdempotent ==
    [][(last'.op = "do_status" /\ last'.err = "none") =>
        \A ids \in Perms(list_ids(StNext)), wall \in Walls :
            LET r == rebuild_index(StNext, ids, wall, "none")
            IN  /\ r.err = "none"
                /\ r.index_file = index_file']_vars

\* C17: save(task) followed by load(task.id) yields the title of the task
\* and the log entries of the task, each once, in order of start ascending,
\* whatever the order of the entries in the task given to save.  (Stated
\* for the runs in which every call returned success before the load.)
C17_RoundTrip ==
    [][(clean /\ last.op = "save" /\ last'.op = "load" /\ out'.x = last.id) =>
        /\ last'.err = "none"
        /\ LET given == out.rows[1]
               got == out'.rows[1]
           IN  /\ got.title = given.title
               /\ Len(got.log) = Len(given.log)
               /\ \E m \in Perms(1..Len(given.log)) :
                     \A i \in 1..Len(given.log) : got.log[i] = given.log[m[i]]
               /\ \A i \in 1..(Len(got.log) - 1) :
                     got.log[i].start <= got.log[i + 1].start]_vars

\* C18: validate_key accepts a key iff it is one or more '/'-joined segments,
\* each a letter followed by letters, digits, '_' or '-', with an optional
\* single leading '/'; it rejects a trailing '/', a '.', and a segment that
\* starts with '_' or '-'; it accepts "foo/bar", "/f-O", "f_O/b-R" and
\* rejects "_oo", "foo/-ar", "foo/bar/", "foo.bar".
C18_KeyGrammar ==
    /\ last.op = "validate_key" =>
          LET s == out.rows
              \* the key without one leading '/'
              b == IF s # <<>> /\ s[1] = "/" THEN Tail(s) ELSE s
              \* position i begins a segment of the '/'-joined segments of b
              SegmentStart(i) == i = 1 \/ b[i - 1] = "/"
              Segments ==
                  /\ b # <<>>
                  /\ b[Len(b)] # "/"
                  /\ \A i \in 1..Len(b) :
                        IF SegmentStart(i) THEN b[i] \in Letter
                        ELSE b[i] = "/" \/ b[i] \in Letter \cup Digit \cup {"_", "-"}
          IN  /\ (last.err = "none") <=> Segments
              /\ (s # <<>> /\ s[Len(s)] = "/") => last.err # "none"
              /\ (\E i \in 1..Len(s) : s[i] = ".") => last.err # "none"
              /\ (\E i \in 1..Len(b) : SegmentStart(i) /\ b[i] \in {"_", "-"})
                    => last.err # "none"
    /\ validate_key(<<"f", "o", "o", "/", "b", "a", "r">>)
    /\ validate_key(<<"/", "f", "-", "O">>)
    /\ validate_key(<<"f", "_", "O", "/", "b", "-", "R">>)
    /\ ~validate_key(<<"_", "o", "o">>)
    /\ ~validate_key(<<"f", "o", "o", "/", "-", "a", "r">>)
    /\ ~validate_key(<<"f", "o", "o", "/", "b", "a", "r", "/">>)
    /\ ~validate_key(<<"f", "o", "o", ".", "b", "a", "r">>)

C18_Witness ==
    /\ last.op = "validate_key"
    /\ last.err = "none"
    /\ out.rows = <<"/", "f", "O">>

\* the entries of the index file; none when there is no index file
Persisted(f) == IF f.exists THEN f.data ELSE EmptyMap

OpenIn(idx) == {k \in DOMAIN idx : idx[k].log_entry.end = None}

C20_RebuildRecovers ==
    (/\ Cardinality(OpenIn(Persisted(index_file))) > 1
     /\ Cardinality({id \in DOMAIN files : Active(files, id)}) <= 1)
    => \E ids \in Perms(list_ids(St)), wall \in Walls :
          LET r == rebuild_invocation(St, ids, wall)
          IN  /\ r.err = "none"
              /\ Cardinality(OpenIn(Persisted(r.index_file))) <= 1

\* C21: the total_effort that get_status reports for a task whose last entry
\* is open is the effort of its log at the time of the query (the open entry
\* counts now - start), so between two get_status calls with nothing in
\* between it grows by the time that passed.
C21_EffortAtQuery ==
    [][last'.op = "get_status" =>
        \A i \in 1..Len(out'.rows) :
            LET row == out'.rows[i]
            IN  is_open(row.log_entry) =>
                  /\ row.total_effort = total_effort(LoadedLog(files, row.id), out'.y)
                  /\ last.op = "get_status" =>
                        \A j \in 1..Len(out.rows) :
                            out.rows[j].id = row.id =>
                                row.total_effort - out.rows[j].total_effort
                                    = out'.y - out.y]_vars

\* the rows of the groups, one group after the other
RECURSIVE Concat(_)
Concat(g) == IF g = <<>> THEN <<>> ELSE Concat(SubSeq(g, 1, Len(g) - 1)) \o g[Len(g)].items

\* C22: group_by_day puts all rows whose start falls on one calendar date
\* in exactly one group, the groups in order make up the rows given, and the
\* total of each group is the sum of the efforts of its rows.
C22_DayGroups ==
    last.op = "do_list" =>
        LET g == out.x
        IN  /\ Concat(g) = out.rows
            /\ \A i \in 1..Len(g) :
                  /\ g[i].items # <<>>
                  /\ \A k \in 1..Len(g[i].items) : date(g[i].items[k].log_entry) = g[i].key
                  /\ g[i].total = rows_total_effort(g[i].items, out.y)
            /\ \A i, j \in 1..Len(g) : g[i].key = g[j].key => i = j

\* C23: do_new(key, title) fails when a record exists for the key and then
\* changes neither the records nor the index; otherwise (no write failing)
\* it succeeds and creates the record with the given title and an empty log,
\* every other record and index entry stays, and the index, in memory and
\* in the file, has no entry for the new task.
C23_DoNew ==
    [][last'.op = "do_new" =>
        LET id == last'.id
        IN  /\ id \in DOMAIN files =>
                  /\ last'.err # "none"
                  /\ files' = files
                  /\ index' = index
                  /\ index_file' = index_file
            /\ (id \notin DOMAIN files /\ ~WriteFailed(last')) =>
                  /\ last'.err = "none"
                  /\ files' = Put(files, id, [title |-> out'.x, log |-> <<>>])
                  /\ out'.x \in Titles
                  /\ index' = index
                  /\ id \notin DOMAIN index'
                  /\ index_file'.exists
                  /\ id \notin DOMAIN index_file'.data]_vars

C23_Witness ==
    /\ last.op = "do_new"
    /\ last.err = "none"
    /\ last.id = "b"
    /\ files["b"] = [title |-> "t", log |-> <<>>]
    /\ DOMAIN index = {"a"}
    /\ DOMAIN index_file.data = {"a"}

\* C24: two invocations that each loaded the index at startup and then
\* interleave their commands on one root: a do_work_on of the second that
\* returns Ok went by the index it loaded, left every other record as it
\* was and wrote that index, with its own entry, to the index file.  So a
\* task clocked in by the first invocation since then stays Active next to
\* the new one, and a task the first gave its first entry since then has no
\* entry in the index file, as the witness shows on a reachable state.
C24_Uncoordinated ==
    [][(peer.pc = "loaded" /\ peer'.pc = "done"
            /\ last'.op = "do_work_on" /\ last'.err = "none") =>
        LET id == last'.id
        IN  /\ is_clocked_in(peer.index) = {}
            /\ Active(files', id)
            /\ \A k \in DOMAIN files \ {id} : files'[k] = files[k]
            /\ DOMAIN index_file'.data = DOMAIN peer.index \cup {id}
            /\ \A k \in DOMAIN peer.index \ {id} :
                  index_file'.data[k] = stored_index(peer.index)[k]
            /\ (\E k \in DOMAIN files \ {id} : Active(files, k)) =>
                  Cardinality({k \in DOMAIN files' : Active(files', k)}) >= 2
            /\ \A k \in DOMAIN files \ {id} :
                  (files[k].log # <<>> /\ k \notin DOMAIN peer.index) =>
                      (files'[k].log # <<>> /\ k \notin DOMAIN index_file'.data)]_vars

C24_Witness ==
    /\ clean
    /\ peer.pc = "done"
    /\ last.op = "do_work_on"
    /\ last.err = "none"
    /\ Cardinality({k \in DOMAIN files : Active(files, k)}) = 2
    /\ DOMAIN index_file.data # {k \in DOMAIN files : files[k].log # <<>>}

\* C25: do_work_on_by_index(now, i) fails when the index has at most i
\* entries; otherwise it selects a task that is at position i of the index
\* ordered by the start of the last entry descending, clocks it in when the
\* task is Idle (no write failing) and fails, changing no record and no
\* index, when the last entry of that task is open.  (Stated for the runs
\* in which every call returned success before it.)
C25_ResumePrevious ==
    [][(clean /\ last'.op = "do_work_on_by_index") =>
        LET id == last'.id
            i == out'.x
            n == Cardinality(DOMAIN index)
            same == files' = files /\ index' = index /\ index_file' = index_file
        IN  /\ n <= i => (last'.err # "none" /\ same)
            /\ n > i =>
                  /\ id \in DOMAIN index
                  /\ Cardinality({k \in DOMAIN index :
                        index[k].log_entry.start > index[id].log_entry.start}) <= i
                  /\ Cardinality({k \in DOMAIN index :
                        index[k].log_entry.start >= index[id].log_entry.start}) > i
                  /\ (Halted(files, id) /\ ~WriteFailed(last')) =>
                        /\ last'.err = "none"
                        /\ files' = Put(files, id,
                              [files[id] EXCEPT
                                  !.log = Append(LoadedLog(files, id), NewLogEntry(last'.ts))])
                  /\ Active(files, id) => (last'.err # "none" /\ same)]_vars

\* C26: after a do_halt that succeeded on task X, whatever its timestamp,
\* a do_append that follows at once succeeds and reopens the entry of X that
\* the halt closed: X is Active again, its last entry has the same start,
\* and the record of no other task changes.  (Stated for the runs in which
\* every call returned success.)
C26_AppendUndoesHalt ==
    [][(clean' /\ last'.op = "do_halt") =>
        \A wall \in Walls :
            \A o \in do_append(StNext, wall, "none") :
                LET X == last'.id
                IN  /\ o.res.err = "none"
                    /\ o.id = X
                    /\ Active(o.res.files, X)
                    /\ LoadedLog(o.res.files, X) = LoadedLog(files, X)
                    /\ \A k \in DOMAIN files' \ {X} : o.res.files[k] = files'[k]]_vars

\* the statements of save in their order
SaveSteps == <<"write", "update_index", "save_index">>

\* C27: in every execution of save the record file is written before the
\* index in memory is updated, and that before the index file is written;
\* no statement runs after one that failed.
C27_SaveOrder ==
    [][/\ last'.op = "save" =>
             /\ Len(out'.x) <= Len(SaveSteps)
             /\ \A i \in 1..Len(out'.x) : out'.x[i].step = SaveSteps[i]
             /\ \A i \in 1..(Len(out'.x) - 1) : out'.x[i].ok
       /\ Running =>
             /\ files' # files => out.x = <<>>
             /\ index' # index =>
                   /\ out.x = <<[step |-> "write", ok |-> TRUE]>>
                   /\ files[last.id] = stored_task(out.rows[1])
             /\ index_file' # index_file =>
                   /\ out.x = <<[step |-> "write", ok |-> TRUE],
                                [step |-> "update_index", ok |-> TRUE]>>
                   /\ files[last.id] = stored_task(out.rows[1])
                   /\ \E wall \in Walls :
                         index = update_index(out.y.index, last.id, out.rows[1], wall)
       /\ (last.op = "save" /\ last.err \in {"record", "index"}) =>
             (files' = files /\ index_file' = index_file /\ last'.op # "save")]_vars

C27_Witness ==
    /\ last.op = "save"
    /\ last.err = "none"
    /\ Len(out.x) = 3
    /\ out.y.files # EmptyMap
    /\ files # out.y.files
    /\ index # out.y.index
    /\ index_file # out.y.index_file
    /\ index_file.data = stored_index(index)

\* C28: when the write of the record file in save fails, save returns an
\* error and the index in memory and the index file are as they were when
\* save was called.
C28_RecordWriteFails ==
    [][(Running /\ out'.x = <<[step |-> "write", ok |-> FALSE]>>) =>
        /\ last'.err = "record"
        /\ ~alive'
        /\ index' = out.y.index
        /\ index_file' = out.y.index_file]_vars

C28_Witness ==
    /\ last.op = "save"
    /\ last.err = "record"
    /\ index # EmptyMap
    /\ index = out.y.index
    /\ index_file.data = stored_index(index)
    /\ \A wall \in Walls : update_index(index, last.id, out.rows[1], wall) # index

\* C30: when the write of the record file succeeds and the write of the
\* index file then fails, save returns an error, the record file holds the
\* task data given to save, and the index file keeps the content it had,
\* which is not the index of the records any more.
C30_IndexWriteFails ==
    [][(Running /\ Len(out'.x) = 3 /\ ~out'.x[3].ok) =>
        /\ out.x[1].ok
        /\ last'.err = "index"
        /\ ~alive'
        /\ files'[last.id] = stored_task(out.rows[1])
        /\ index_file' = out.y.index_file]_vars

\* C29: an operation that aborts with a storage or parse error (a record
\* that cannot be read or parsed, a record write that fails) leaves the
\* index in memory and the index file as they were before it; so does
\* rebuild_index when the load of a record fails.
C29_AbortKeepsIndex ==
    [][(last'.op # "new" /\ last'.err \in {"missing", "corrupt", "record"}) =>
        /\ index' = index
        /\ index_file' = index_file]_vars

\* the calls of Spec that end in Repo::save when they return Ok
SaveCalls == ClockOps \cup {"do_new"}

\* C31: after every successful save of a task the index, in memory and in
\* the file, has an entry for the task iff the saved log is not empty, and
\* the total_effort of the entry is the sum of the efforts of all entries of
\* the saved log, whatever the entry held before; an entry closed 90 min
\* after its start counts 90 min.
C31_IndexUpdate ==
    [][(last'.op \in SaveCalls /\ last'.err = "none") =>
        LET id == last'.id
            log == files'[id].log
        IN  /\ id \in DOMAIN index' <=> log # <<>>
            /\ id \in DOMAIN index_file'.data <=> log # <<>>
            /\ log # <<>> =>
                  \E wall \in Walls :
                      /\ index'[id].total_effort = total_effort(log, wall)
                      /\ index_file'.data[id].total_effort = total_effort(log, wall)
            /\ total_effort(<<[start |-> 0, end |-> 5400 * SubSecond]>>, 0)
                  = 5400 * SubSecond]_vars

C31_Witness ==
    /\ last.op \in ClockOps
    /\ last.err = "none"
    /\ Len(files[last.id].log) = 2
    /\ index[last.id].total_effort = total_effort(files[last.id].log, 0)
    /\ index[last.id].total_effort # effort(LastOf(files[last.id].log), 0)

\* C32: list_ids returns exactly the identifiers of the records that were
\* saved, one with a leading '/' included and the index file left out, so
\* that rebuild_index succeeds when every record can be loaded.  (Stated
\* for the states reached by calls that all returned success.)
C32_ListIds ==
    clean =>
        /\ list_ids(St) = DOMAIN files
        /\ \A ids \in Perms(list_ids(St)), wall \in Walls :
              rebuild_index(St, ids, wall, "none").err = "none"

\* C33: in every state that the commands reach, when is_clocked_in reports
\* a task, do_halt with any timestamp succeeds and leaves is_clocked_in
\* reporting no task, and do_cancel succeeds.  (Stated for the states
\* reached by calls that all returned success, with no write failing.)
C33_CanStop ==
    (clean /\ alive /\ is_clocked_in(index) # {}) =>
        \A wall \in Walls :
            /\ \A now \in Times :
                  \A o \in do_halt(St, now, wall, "none") :
                      /\ o.res.err = "none"
                      /\ is_clocked_in(o.res.index) = {}
            /\ \A o \in do_cancel(St, wall, "none") : o.res.err = "none"

Primitives == {"clock_in", "clock_out", "un_clock_in", "un_clock_out"}

\* the entry of id in the map m, if any
EntryOf(m, id) == IF id \in DOMAIN m THEN <<m[id]>> ELSE <<>>

\* C34: a clock_in, clock_out, un_clock_in or un_clock_out on a task,
\* whether it returns Ok or Err, leaves the record file of every other task
\* and the entry of every other task in Repo.index and in .index.toml as
\* they were.
C34_Frame ==
    [][last'.op \in Primitives =>
          \A y \in Ids \ {last'.id} :
              /\ EntryOf(files', y) = EntryOf(files, y)
              /\ EntryOf(index', y) = EntryOf(index, y)
              /\ EntryOf(index_file'.data, y) = EntryOf(index_file.data, y)]_vars

\* C35: every whole-second total_effort is written as its non-zero pieces
\* in the order h, min, s, zero as "0s" and 5400 s as "1h30min", and reading
\* the text written returns the duration that was written.
C35_RoundTrip ==
    /\ nice(seconds(5400)) = <<[x |-> 1, suffix |-> "h"], [x |-> 30, suffix |-> "min"]>>
    /\ last.op \in {"serialize", "deserialize"} =>
          /\ out.y # <<>>
          /\ DURATION_RE(out.y)
          /\ IF out.x = NoDuration THEN out.y = <<[x |-> 0, suffix |-> "s"]>>
             ELSE \A k \in 1..Len(out.y) : out.y[k].x # 0
    /\ last.op = "deserialize" =>
          /\ out.rows[1].err = "none"
          /\ out.rows[1].d = out.x

====
